---- MODULE Spec2Model ----
(***************************************************************************)
(* Model of sort.cpp: merge_sort, async_merge_sort, quick_sort and         *)
(* async_quick_sort over a shared integer buffer.                          *)
(*                                                                         *)
(* Positions are 1-based: the C++ range [start, end) over a vector of n    *)
(* elements is modelled as start, end in 1..n+1, element *p being a[p].    *)
(* Every thread (the caller's thread and one per std::async call) owns a   *)
(* stack of call frames; the top of the stack is the head of the sequence. *)
(* The future returned by the k-th async call of thread t is identified    *)
(* with the thread it started: 2t for task1 and 2t+1 for task2.            *)
(***************************************************************************)
EXTENDS Integers, Sequences, FiniteSets, TLC

VARIABLES a, input, MAX_PART, threads, swaps

vars == <<a, input, MAX_PART, threads, swaps>>

\* Bounds of the model
MaxLen == 4
MaxVal == 3
MaxThreshold == 2

Values == 1..MaxVal

Variants == {"merge_sort", "async_merge_sort", "quick_sort", "async_quick_sort"}

MergeFns == {"merge_sort", "async_merge_sort"}
QuickFns == {"quick_sort", "async_quick_sort"}
AsyncFns == {"async_merge_sort", "async_quick_sort"}

----------------------------------------------------------------------------
\* Sequence helpers

Range(s) == {s[i] : i \in DOMAIN s}

Count(s, v) == Cardinality({i \in DOMAIN s : s[i] = v})

IsPermOf(s, t) ==
    /\ Len(s) = Len(t)
    /\ \A v \in Range(s) \cup Range(t) : Count(s, v) = Count(t, v)

\* s is non-decreasing on the positions [lo, hi)
SortedOn(s, lo, hi) == \A i \in lo..(hi - 2) : s[i] <= s[i + 1]

\* the write-back shifted by one position: (lo, hi] instead of [lo, hi)
ReplaceShifted(s, lo, hi, r) ==
    [i \in DOMAIN s |-> IF i > lo /\ i <= hi THEN r[i - lo] ELSE s[i]]

\* s with the positions [lo, hi) replaced by the elements of r
Replace(s, lo, hi, r) ==
    [i \in DOMAIN s |-> IF i >= lo /\ i < hi THEN r[i - lo + 1] ELSE s[i]]

\* iter_swap that only assigns *i = *j
iter_swap_copy(s, i, j) == [s EXCEPT ![i] = s[j]]

\* iter_swap(i, j)
iter_swap(s, i, j) == [s EXCEPT ![i] = s[j], ![j] = s[i]]

RECURSIVE InsertSorted(_, _)
InsertSorted(s, v) ==
    IF s = <<>> THEN <<v>>
    ELSE IF v < Head(s) THEN <<v>> \o s
    ELSE <<Head(s)>> \o InsertSorted(Tail(s), v)

\* std::sort on a sequence of values
RECURSIVE sort(_)
sort(s) == IF s = <<>> THEN <<>> ELSE InsertSorted(sort(Tail(s)), Head(s))

\* the merge of two sorted sequences, left elements first among equals
RECURSIVE MergeSeq(_, _)
MergeSeq(l, r) ==
    IF l = <<>> THEN r
    ELSE IF r = <<>> THEN l
    ELSE IF r[1] < l[1] THEN <<r[1]>> \o MergeSeq(l, Tail(r))
    ELSE <<l[1]>> \o MergeSeq(Tail(l), r)

\* std::inplace_merge(start, middle, end): the set of buffers it may leave.
\* With both halves sorted it is the merge; otherwise its precondition is
\* violated and the result is some rearrangement of the range.
inplace_merge(s, start, middle, end) ==
    IF SortedOn(s, start, middle) /\ SortedOn(s, middle, end)
    THEN {Replace(s, start, end,
                  MergeSeq(SubSeq(s, start, middle - 1), SubSeq(s, middle, end - 1)))}
    ELSE {Replace(s, start, end, p) :
            p \in {q \in [1..(end - start) -> Range(SubSeq(s, start, end - 1))] :
                     IsPermOf(q, SubSeq(s, start, end - 1))}}

----------------------------------------------------------------------------
\* The partition step of quick_sort and async_quick_sort

\* the equal-run scan stopping one position early: head < end - 1
RECURSIVE EqualRunOffByOne(_, _, _, _)
EqualRunOffByOne(s, head, end, pivot) ==
    IF head < end - 1 /\ s[head] = pivot
    THEN EqualRunOffByOne(s, head + 1, end, pivot) ELSE head

\* while ((head < end) && (*head == pivot)) ++head;
RECURSIVE EqualRun(_, _, _, _)
EqualRun(s, head, end, pivot) ==
    IF head < end /\ s[head] = pivot THEN EqualRun(s, head + 1, end, pivot) ELSE head

\* while ((head < tail) && (*head <= pivot)) ++head;
RECURSIVE ScanHead(_, _, _, _)
ScanHead(s, head, tail, pivot) ==
    IF head < tail /\ s[head] <= pivot THEN ScanHead(s, head + 1, tail, pivot) ELSE head

\* while ((head < tail) && (*tail > pivot)) --tail;
RECURSIVE ScanTail(_, _, _, _)
ScanTail(s, head, tail, pivot) ==
    IF head < tail /\ s[tail] > pivot THEN ScanTail(s, head, tail - 1, pivot) ELSE tail

\* the equal-run scan with its operands swapped: (*head == pivot) && (head < end)
RECURSIVE EqualRunAccUnchecked(_, _, _, _)
EqualRunAccUnchecked(s, head, end, pivot) ==
    {head} \cup (IF head < end /\ s[head] = pivot
                 THEN EqualRunAccUnchecked(s, head + 1, end, pivot) ELSE {})

\* the positions dereferenced by: while ((head < end) && (*head == pivot)) ++head;
RECURSIVE EqualRunAcc(_, _, _, _)
EqualRunAcc(s, head, end, pivot) ==
    IF head < end
    THEN {head} \cup (IF s[head] = pivot
                      THEN EqualRunAcc(s, head + 1, end, pivot) ELSE {})
    ELSE {}

\* the positions dereferenced by: while ((head < tail) && (*head <= pivot)) ++head;
RECURSIVE ScanHeadAcc(_, _, _, _)
ScanHeadAcc(s, head, tail, pivot) ==
    IF head < tail
    THEN {head} \cup (IF s[head] <= pivot
                      THEN ScanHeadAcc(s, head + 1, tail, pivot) ELSE {})
    ELSE {}

\* the positions dereferenced by: while ((head < tail) && (*tail > pivot)) --tail;
RECURSIVE ScanTailAcc(_, _, _, _)
ScanTailAcc(s, head, tail, pivot) ==
    IF head < tail
    THEN {tail} \cup (IF s[tail] > pivot
                      THEN ScanTailAcc(s, head, tail - 1, pivot) ELSE {})
    ELSE {}

\* while (head < tail) { ...; if (head >= tail) break; iter_swap(head++, tail--); }
RECURSIVE TwoPointer(_, _)
TwoPointer(st, pivot) ==
    IF st.head < st.tail
    THEN LET h == ScanHead(st.a, st.head, st.tail, pivot)
             t == ScanTail(st.a, h, st.tail, pivot)
         IN  IF h >= t
             THEN [st EXCEPT !.head = h, !.tail = t]
             ELSE TwoPointer([a |-> iter_swap(st.a, h, t), head |-> h + 1,
                              tail |-> t - 1, swaps |-> st.swaps + 1], pivot)
    ELSE st

\* the scan without its last step: head stays where the loop left it
FinalHeadNoStep(s, head, pivot) == head

\* if (*head <= pivot) ++head;
FinalHead(s, head, pivot) == IF s[head] <= pivot THEN head + 1 ELSE head

\* The result of the scan: uniform tells that the function returned after the
\* equal-run scan, head is the split point, tail the last tail position and
\* swaps counts the iter_swap calls.
ScanResult(st, pivot) ==
    LET r == TwoPointer(st, pivot)
    IN  [uniform |-> FALSE, a |-> r.a, pivot |-> pivot,
         head |-> FinalHead(r.a, r.head, pivot), tail |-> r.tail,
         swaps |-> r.swaps]

UniformResult(s, pivot, end) ==
    [uniform |-> TRUE, a |-> s, pivot |-> pivot, head |-> end, tail |-> end - 1,
     swaps |-> 0]

\* quick_sort keeping the middle element as pivot: lines 65-68 left out
QuickPartitionNoLower(s, start, end) ==
    LET size   == end - start
        pivot0 == s[start + (size \div 2)]
        head0  == EqualRun(s, start, end, pivot0)
    IN  IF head0 = end THEN UniformResult(s, pivot0, end)
        ELSE ScanResult([a |-> s, head |-> head0, tail |-> end - 1, swaps |-> 0],
                        pivot0)

\* quick_sort, lines 56-79
QuickPartition(s, start, end) ==
    LET size   == end - start
        pivot0 == s[start + (size \div 2)]
        head0  == EqualRun(s, start, end, pivot0)
    IN  IF head0 = end THEN UniformResult(s, pivot0, end)
        ELSE IF s[head0] < pivot0
        THEN ScanResult([a |-> s, head |-> start, tail |-> end - 1, swaps |-> 0],
                        s[head0])
        ELSE ScanResult([a |-> s, head |-> head0, tail |-> end - 1, swaps |-> 0],
                        pivot0)

\* async_quick_sort keeping the old pivot after the swap: line 102 left out
AsyncQuickPartitionStalePivot(s, start, end) ==
    LET pivot0 == s[start]
        head0  == EqualRun(s, start, end, pivot0)
    IN  IF head0 = end THEN UniformResult(s, pivot0, end)
        ELSE IF s[head0] < pivot0
        THEN ScanResult([a |-> iter_swap(s, head0, start), head |-> start + 1,
                         tail |-> end - 1, swaps |-> 1], pivot0)
        ELSE ScanResult([a |-> s, head |-> head0, tail |-> end - 1, swaps |-> 0],
                        pivot0)

\* async_quick_sort, lines 90-114
AsyncQuickPartition(s, start, end) ==
    LET pivot0 == s[start]
        head0  == EqualRun(s, start, end, pivot0)
    IN  IF head0 = end THEN UniformResult(s, pivot0, end)
        ELSE IF s[head0] < pivot0
        THEN LET s1 == iter_swap(s, head0, start)
             IN  ScanResult([a |-> s1, head |-> start + 1, tail |-> end - 1,
                             swaps |-> 1], s1[start])
        ELSE ScanResult([a |-> s, head |-> head0, tail |-> end - 1, swaps |-> 0],
                        pivot0)

PartitionOf(fn, s, start, end) ==
    IF fn = "quick_sort" THEN QuickPartition(s, start, end)
    ELSE AsyncQuickPartition(s, start, end)

\* The positions dereferenced by the loop of lines 69-77, 104-112
RECURSIVE TwoPointerAcc(_, _)
TwoPointerAcc(st, pivot) ==
    IF st.head < st.tail
    THEN LET h == ScanHead(st.a, st.head, st.tail, pivot)
             t == ScanTail(st.a, h, st.tail, pivot)
         IN  ScanHeadAcc(st.a, st.head, st.tail, pivot)
               \cup ScanTailAcc(st.a, h, st.tail, pivot)
               \cup (IF h >= t THEN {}
                     ELSE {h, t} \cup
                          TwoPointerAcc([a |-> iter_swap(st.a, h, t), head |-> h + 1,
                                         tail |-> t - 1, swaps |-> st.swaps + 1],
                                        pivot))
    ELSE {}

\* ... and by the final test of lines 78, 113
ScanAcc(st, pivot) == TwoPointerAcc(st, pivot) \cup {TwoPointer(st, pivot).head}

\* the positions dereferenced by quick_sort, lines 56-79
QuickAcc(s, start, end) ==
    LET size   == end - start
        pivot0 == s[start + (size \div 2)]
        head0  == EqualRun(s, start, end, pivot0)
        acc0   == {start + (size \div 2)} \cup EqualRunAcc(s, start, end, pivot0)
    IN  IF head0 = end THEN acc0
        ELSE IF s[head0] < pivot0
        THEN acc0 \cup {head0} \cup
             ScanAcc([a |-> s, head |-> start, tail |-> end - 1, swaps |-> 0], s[head0])
        ELSE acc0 \cup {head0} \cup
             ScanAcc([a |-> s, head |-> head0, tail |-> end - 1, swaps |-> 0], pivot0)

\* the positions dereferenced by async_quick_sort, lines 90-114
AsyncQuickAcc(s, start, end) ==
    LET pivot0 == s[start]
        head0  == EqualRun(s, start, end, pivot0)
        acc0   == {start} \cup EqualRunAcc(s, start, end, pivot0)
    IN  IF head0 = end THEN acc0
        ELSE IF s[head0] < pivot0
        THEN LET s1 == iter_swap(s, head0, start)
             IN  acc0 \cup {head0, start} \cup
                 ScanAcc([a |-> s1, head |-> start + 1, tail |-> end - 1, swaps |-> 1],
                         s1[start])
        ELSE acc0 \cup {head0} \cup
             ScanAcc([a |-> s, head |-> head0, tail |-> end - 1, swaps |-> 0], pivot0)

AccOf(fn, s, start, end) ==
    IF fn = "quick_sort" THEN QuickAcc(s, start, end)
    ELSE AsyncQuickAcc(s, start, end)

----------------------------------------------------------------------------
\* Threads and call frames

Frame(fn, start, end) ==
    [fn |-> fn, start |-> start, end |-> end, pc |-> "entry", split |-> 0, pivot |-> 0]

\* a task handed to a scheduler that never picks it up
NewThreadQueued(fn, start, end) ==
    [state |-> "running", fn |-> fn, start |-> start, end |-> end,
     stack |-> <<[Frame(fn, start, end) EXCEPT !.pc = "queued"]>>]

\* a thread running fn(start, end) as its entry function
NewThread(fn, start, end) ==
    [state |-> "running", fn |-> fn, start |-> start, end |-> end,
     stack |-> <<Frame(fn, start, end)>>]

\* the threads started by the first and the second async call of thread t
task1(t) == 2 * t
task2(t) == 2 * t + 1

Running(t) == t \in DOMAIN threads /\ threads[t].state = "running"

\* future::wait() returns: the task has stored a value or an exception
Ready(c) == c \in DOMAIN threads /\ threads[c].state # "running"

Top(t) == Head(threads[t].stack)

Size(f) == f.end - f.start

\* the current call of thread t is at pc in a function of fns
At(t, fns, pc) == Running(t) /\ Top(t).fn \in fns /\ Top(t).pc = pc

\* the current call of thread t returns normally
Return(t) ==
    LET st == Tail(threads[t].stack)
    IN  [threads EXCEPT ![t].stack = st,
                        ![t].state = IF st = <<>> THEN "done" ELSE "running"]

\* the current call of thread t becomes f
SetTop(t, f) == [threads EXCEPT ![t].stack = <<f>> \o Tail(@)]

\* the current call of thread t becomes f and calls g
Call(t, f, g) == [threads EXCEPT ![t].stack = <<g, f>> \o Tail(@)]

\* the function a call of fn recurses into on the same thread
Callee(fn) == IF fn \in MergeFns THEN "merge_sort" ELSE "quick_sort"

\* async_quick_sort launching its sub-calls whatever the size of the range
SpawnsAlways(f) == f.fn \in AsyncFns

\* the call spawns its two sub-calls instead of calling them
Spawns(f) ==
    \/ f.fn = "async_merge_sort"
    \/ f.fn = "async_quick_sort" /\ Size(f) > MAX_PART

----------------------------------------------------------------------------
\* main 128: the vector of numbers, not yet filled
Init ==
    /\ input = <<>>
    /\ a = <<>>
    /\ MAX_PART \in 1..MaxThreshold
    /\ threads = <<>>
    /\ swaps = 0

\* main 135-137: the generator yields the next number
generate ==
    /\ threads = <<>>
    /\ Len(input) < MaxLen
    /\ \E n \in Values : input' = Append(input, n)
    /\ a' = input'
    /\ UNCHANGED <<MAX_PART, threads, swaps>>

\* main 142-146: test calls sort_function on a copy of the numbers
test ==
    /\ threads = <<>>
    /\ \E v \in Variants : threads' = (1 :> NewThread(v, 1, Len(input) + 1))
    /\ UNCHANGED <<a, input, MAX_PART, swaps>>

\* the baseline sort called on one element too few: sort(start, end - 1)
BaselineSortShort(t) ==
    /\ At(t, MergeFns, "entry")
    /\ Size(Top(t)) <= MAX_PART
    /\ LET f == Top(t)
       IN  a' = IF Size(f) = 0 THEN a
                ELSE Replace(a, f.start, f.end - 1,
                             sort(SubSeq(a, f.start, f.end - 2)))
    /\ threads' = Return(t)
    /\ UNCHANGED <<input, MAX_PART, swaps>>

\* merge_sort 26-27, async_merge_sort 39-40: sort(start, end)
BaselineSort(t) ==
    /\ At(t, MergeFns, "entry")
    /\ Size(Top(t)) <= MAX_PART
    /\ LET f == Top(t)
       IN  a' = Replace(a, f.start, f.end, sort(SubSeq(a, f.start, f.end - 1)))
    /\ threads' = Return(t)
    /\ UNCHANGED <<input, MAX_PART, swaps>>

\* the split taken after the first element: middle = start + 1
MidpointUnbalanced(t) ==
    /\ At(t, MergeFns, "entry")
    /\ Size(Top(t)) > MAX_PART
    /\ LET f == Top(t)
       IN  threads' = SetTop(t, [f EXCEPT !.pc = "part", !.split = f.start + 1])
    /\ UNCHANGED <<a, input, MAX_PART, swaps>>

\* the split taken already at size == MAX_PART: if (size < MAX_PART) sort
MidpointOffByOne(t) ==
    /\ At(t, MergeFns, "entry")
    /\ Size(Top(t)) >= MAX_PART
    /\ LET f == Top(t)
       IN  threads' = SetTop(t, [f EXCEPT !.pc = "part",
                                          !.split = f.start + (Size(f) \div 2)])
    /\ UNCHANGED <<a, input, MAX_PART, swaps>>

\* merge_sort 29, async_merge_sort 42: middle = start + size / 2
Midpoint(t) ==
    /\ At(t, MergeFns, "entry")
    /\ Size(Top(t)) > MAX_PART
    /\ LET f == Top(t)
       IN  threads' = SetTop(t, [f EXCEPT !.pc = "part",
                                          !.split = f.start + (Size(f) \div 2)])
    /\ UNCHANGED <<a, input, MAX_PART, swaps>>

\* quick_sort 54-55, async_quick_sort 88-89: if (size < 2) return
SmallReturn(t) ==
    /\ At(t, QuickFns, "entry")
    /\ Size(Top(t)) < 2
    /\ threads' = Return(t)
    /\ UNCHANGED <<a, input, MAX_PART, swaps>>

\* quick_sort 56-79, async_quick_sort 90-114
Partition(t) ==
    /\ At(t, QuickFns, "entry")
    /\ Size(Top(t)) >= 2
    /\ \E f \in {Top(t)} : \E r \in {PartitionOf(f.fn, a, f.start, f.end)} :
           /\ a' = r.a
           /\ swaps' = swaps + r.swaps
           /\ threads' = IF r.uniform THEN Return(t)
                         ELSE SetTop(t, [f EXCEPT !.pc = "part", !.split = r.head,
                                                  !.pivot = r.pivot])
    /\ UNCHANGED <<input, MAX_PART>>

\* the left sub-call made on [start, split - 1)
CallLeftShort(t) ==
    /\ At(t, Variants, "part")
    /\ ~Spawns(Top(t))
    /\ LET f == Top(t)
       IN  threads' = Call(t, [f EXCEPT !.pc = "left"],
                           Frame(Callee(f.fn), f.start, f.split - 1))
    /\ UNCHANGED <<a, input, MAX_PART, swaps>>

\* merge_sort 30, quick_sort 81, async_quick_sort 117
CallLeft(t) ==
    /\ At(t, Variants, "part")
    /\ ~Spawns(Top(t))
    /\ LET f == Top(t)
       IN  threads' = Call(t, [f EXCEPT !.pc = "left"],
                           Frame(Callee(f.fn), f.start, f.split))
    /\ UNCHANGED <<a, input, MAX_PART, swaps>>

\* merge_sort 31, quick_sort 82, async_quick_sort 118
CallRight(t) ==
    /\ At(t, Variants, "left")
    /\ LET f == Top(t)
       IN  threads' = Call(t, [f EXCEPT !.pc = "right"],
                           Frame(Callee(f.fn), f.split, f.end))
    /\ UNCHANGED <<a, input, MAX_PART, swaps>>

\* async_merge_sort 43-44, async_quick_sort 120: task1 = async(launch::async, ...)
Launch1(t) ==
    /\ At(t, AsyncFns, "part")
    /\ Spawns(Top(t))
    /\ LET f == Top(t)
       IN  threads' = SetTop(t, [f EXCEPT !.pc = "launched1"])
                        @@ (task1(t) :> NewThread(f.fn, f.start, f.split))
    /\ UNCHANGED <<a, input, MAX_PART, swaps>>

\* async_merge_sort 45, async_quick_sort 121: task2 = async(launch::async, ...)
Launch2(t) ==
    /\ At(t, AsyncFns, "launched1")
    /\ LET f == Top(t)
       IN  threads' = SetTop(t, [f EXCEPT !.pc = "wait1"])
                        @@ (task2(t) :> NewThread(f.fn, f.split, f.end))
    /\ UNCHANGED <<a, input, MAX_PART, swaps>>

\* the parent going on without task1.wait()
Wait1NoBlock(t) ==
    /\ At(t, AsyncFns, "wait1")
    /\ threads' = SetTop(t, [Top(t) EXCEPT !.pc = "wait2"])
    /\ UNCHANGED <<a, input, MAX_PART, swaps>>

\* async_merge_sort 46, async_quick_sort 122: task1.wait()
Wait1(t) ==
    /\ At(t, AsyncFns, "wait1")
    /\ Ready(task1(t))
    /\ threads' = SetTop(t, [Top(t) EXCEPT !.pc = "wait2"])
    /\ UNCHANGED <<a, input, MAX_PART, swaps>>

\* a join that is satisfied by either task
Wait2Either(t) ==
    /\ At(t, AsyncFns, "wait2")
    /\ Ready(task1(t)) \/ Ready(task2(t))
    /\ threads' = SetTop(t, [Top(t) EXCEPT !.pc = "right"])
    /\ UNCHANGED <<a, input, MAX_PART, swaps>>

\* async_merge_sort 47, async_quick_sort 123: task2.wait()
Wait2(t) ==
    /\ At(t, AsyncFns, "wait2")
    /\ Ready(task2(t))
    /\ threads' = SetTop(t, [Top(t) EXCEPT !.pc = "right"])
    /\ UNCHANGED <<a, input, MAX_PART, swaps>>

\* merge_sort 32, async_merge_sort 48: inplace_merge(start, middle, end)
Merge(t) ==
    /\ At(t, MergeFns, "right")
    /\ LET f == Top(t)
       IN  a' \in inplace_merge(a, f.start, f.split, f.end)
    /\ threads' = Return(t)
    /\ UNCHANGED <<input, MAX_PART, swaps>>

\* quick_sort 83, async_quick_sort 125: the function returns
Finish(t) ==
    /\ At(t, QuickFns, "right")
    /\ threads' = Return(t)
    /\ UNCHANGED <<a, input, MAX_PART, swaps>>

Next ==
    \/ generate
    \/ test
    \/ \E t \in DOMAIN threads : BaselineSort(t)
    \/ \E t \in DOMAIN threads : Midpoint(t)
    \/ \E t \in DOMAIN threads : SmallReturn(t)
    \/ \E t \in DOMAIN threads : Partition(t)
    \/ \E t \in DOMAIN threads : CallLeft(t)
    \/ \E t \in DOMAIN threads : CallRight(t)
    \/ \E t \in DOMAIN threads : Launch1(t)
    \/ \E t \in DOMAIN threads : Launch2(t)
    \/ \E t \in DOMAIN threads : Wait1(t)
    \/ \E t \in DOMAIN threads : Wait2(t)
    \/ \E t \in DOMAIN threads : Merge(t)
    \/ \E t \in DOMAIN threads : Finish(t)

Spec == Init /\ [][Next]_vars

\* every thread that can take a step is eventually scheduled
FairSpec == Spec /\ WF_vars(Next)

----------------------------------------------------------------------------
\* Faults: std::async(launch::async, ...) throws std::system_error when no new
\* thread can be started.  The exception leaves the throwing call; in a spawned
\* thread it is stored in the shared state of its future.

\* the exception leaves the entry function of thread t
Throw(t) == [threads EXCEPT ![t].stack = <<>>, ![t].state = "failed"]

\* async_merge_sort 43-44, async_quick_sort 120: the first async call throws
Launch1Fail(t) ==
    /\ At(t, AsyncFns, "part")
    /\ Spawns(Top(t))
    /\ threads' = Throw(t)
    /\ UNCHANGED <<a, input, MAX_PART, swaps>>

\* async_merge_sort 45, async_quick_sort 121: the second async call throws;
\* unwinding destroys task1, whose destructor blocks until its thread ends
Launch2Fail(t) ==
    /\ At(t, AsyncFns, "launched1")
    /\ threads' = SetTop(t, [Top(t) EXCEPT !.pc = "unwind"])
    /\ UNCHANGED <<a, input, MAX_PART, swaps>>

\* a future whose destructor does not block: task1 is left detached
UnwindDetached(t) ==
    /\ At(t, AsyncFns, "unwind")
    /\ threads' = Throw(t)
    /\ UNCHANGED <<a, input, MAX_PART, swaps>>

\* ~future() of task1 returns and the exception leaves the function
Unwind(t) ==
    /\ At(t, AsyncFns, "unwind")
    /\ Ready(task1(t))
    /\ threads' = Throw(t)
    /\ UNCHANGED <<a, input, MAX_PART, swaps>>

Fault ==
    \/ \E t \in DOMAIN threads : Launch1Fail(t)
    \/ \E t \in DOMAIN threads : Launch2Fail(t)
    \/ \E t \in DOMAIN threads : Unwind(t)

NextFault == Next \/ Fault

SpecFault == Init /\ [][NextFault]_vars

----------------------------------------------------------------------------
\* Observations used by the properties

\* the top-level call has returned normally to its caller
Returned == 1 \in DOMAIN threads /\ threads[1].state = "done"

\* the top-level call has left by an exception
Failed == 1 \in DOMAIN threads /\ threads[1].state = "failed"

Parallel == 1 \in DOMAIN threads /\ threads[1].fn \in AsyncFns

\* C1: every variant returns with the buffer non-decreasing, a permutation of
\* the input and equal to the reference sort of the input, and it does return.
C1_Sorts ==
    /\ [](Returned => /\ SortedOn(a, 1, Len(a) + 1)
                      /\ IsPermOf(a, input)
                      /\ a = sort(input))
    /\ <>Returned

C1_Witness ==
    /\ Returned
    /\ threads[1].fn = "async_quick_sort"
    /\ Cardinality(DOMAIN threads) >= 5
    /\ Len(input) >= 4
    /\ ~SortedOn(input, 1, Len(input) + 1)
    /\ \E i, j \in DOMAIN input : i # j /\ input[i] = input[j]

----------------------------------------------------------------------------
\* C2: two threads that are both working (running and not between the first
\* launch and the end of the second wait) work on disjoint positions, and a
\* working thread has either launched no task or seen both of them end.
Positions(f) == f.start..(f.end - 1)

Working(t) ==
    Running(t) /\ Top(t).pc \notin {"launched1", "wait1", "wait2", "unwind"}

C2_DisjointWork ==
    /\ \A t, u \in DOMAIN threads :
         (t # u /\ Working(t) /\ Working(u))
            => Positions(Top(t)) \cap Positions(Top(u)) = {}
    /\ \A t \in DOMAIN threads :
         Working(t) => \A c \in {task1(t), task2(t)} \cap DOMAIN threads : Ready(c)

C2_Witness ==
    \E t, u \in DOMAIN threads :
        /\ t >= 4 /\ u = 3
        /\ Working(t) /\ Working(u)
        /\ Size(Top(t)) >= 1 /\ Size(Top(u)) >= 2

\* C3: a call of async_merge_sort is at its inplace_merge only when both of
\* the tasks it launched have ended.
C3_MergeAfterBoth ==
    \A t \in DOMAIN threads :
        At(t, {"async_merge_sort"}, "right") => Ready(task1(t)) /\ Ready(task2(t))

C3_Witness ==
    \E t \in DOMAIN threads :
        /\ t > 1
        /\ At(t, {"async_merge_sort"}, "right")
        /\ threads[task1(t)].state = "done" /\ threads[task2(t)].state = "done"

\* C4: a call that has waited for a task that ended in failure ends in
\* failure itself: it is neither past the wait nor returned normally.
Awaited1(t) ==
    \/ threads[t].state = "done"
    \/ Running(t) /\ Top(t).pc \in {"wait2", "right"}

Awaited2(t) ==
    \/ threads[t].state = "done"
    \/ Running(t) /\ Top(t).pc = "right"

TaskFailed(c) == c \in DOMAIN threads /\ threads[c].state = "failed"

C4_FailurePropagates ==
    \A t \in DOMAIN threads :
        /\ (TaskFailed(task1(t)) /\ Awaited1(t)) => threads[t].state = "failed"
        /\ (TaskFailed(task2(t)) /\ Awaited2(t)) => threads[t].state = "failed"

\* C5: a top-level call of a parallel variant that returns normally leaves
\* the whole buffer sorted ascending.
C5_SortedOrFailure ==
    (Parallel /\ Returned) => SortedOn(a, 1, Len(a) + 1)

\* C6: a thread whose entry call has ended, normally or by an exception, has
\* no launched task still running.
C6_NoTaskOutlives ==
    \A t \in DOMAIN threads :
        ~Running(t) => \A c \in {task1(t), task2(t)} \cap DOMAIN threads : Ready(c)

C6_Witness ==
    \E t \in DOMAIN threads :
        /\ threads[t].state = "failed"
        /\ task1(t) \in DOMAIN threads
        /\ task2(t) \notin DOMAIN threads
        /\ Cardinality(DOMAIN threads) >= 4

\* C7: with one new thread per launched task and fair scheduling, the
\* unfinished threads are never all blocked in wait, and a top-level call of a
\* parallel variant eventually returns.
Blocked(t) ==
    /\ Running(t)
    /\ \/ Top(t).pc \in {"wait1", "unwind"} /\ ~Ready(task1(t))
       \/ Top(t).pc = "wait2" /\ ~Ready(task2(t))

NoDeadlock ==
    (\E t \in DOMAIN threads : Running(t))
        => \E t \in DOMAIN threads : Running(t) /\ ~Blocked(t)

C7_NoDeadlock == []NoDeadlock /\ (Parallel ~> Returned)

C7_Witness ==
    /\ Blocked(1)
    /\ \E t, u \in DOMAIN threads : t # u /\ t > 1 /\ u > 1 /\ Blocked(t) /\ Blocked(u)

\* C8: every call made or launched by a call gets a strictly smaller range,
\* a partition that is followed by sub-calls has start < split < end, and
\* every top-level call returns.
StrictlySmaller ==
    \A t \in DOMAIN threads :
        /\ \A i \in 1..(Len(threads[t].stack) - 1) :
             Size(threads[t].stack[i]) < Size(threads[t].stack[i + 1])
        /\ t > 1 => Size(threads[t]) < Size(threads[t \div 2])
        /\ \A i \in 1..Len(threads[t].stack) :
             LET f == threads[t].stack[i]
             IN  (f.fn \in QuickFns /\ f.pc # "entry")
                    => (f.start < f.split /\ f.split < f.end)

C8_RangesShrink == []StrictlySmaller /\ ((threads # <<>>) ~> Returned)

C8_Witness ==
    \E u \in DOMAIN threads :
        /\ u > 1
        /\ Len(threads[u].stack) >= 2
        /\ Top(u).fn = "quick_sort"
        /\ Top(u).pc = "entry"
        /\ Size(Top(u)) >= 1

\* C9: when the scan of quick_sort or async_quick_sort has finished, just
\* before the sub-calls, the positions before split hold values <= pivot,
\* the positions from split on hold values > pivot, and start <= split <= end.
C9_PartitionPost ==
    \A t \in DOMAIN threads :
        At(t, QuickFns, "part") =>
            LET f == Top(t)
            IN  /\ f.start <= f.split /\ f.split <= f.end
                /\ \A i \in f.start..(f.split - 1) : a[i] <= f.pivot
                /\ \A i \in f.split..(f.end - 1) : a[i] > f.pivot

C9_Witness ==
    \E t \in DOMAIN threads :
        /\ At(t, {"async_quick_sort"}, "part")
        /\ swaps >= 2
        /\ Size(Top(t)) >= 4
        /\ a # input

\* C10: a call of quick_sort or async_quick_sort on a range of two or more
\* equal elements returns in its next step, with no swap, no sub-call, no
\* launched task and the buffer unchanged.
Uniform(s, lo, hi) == \A i, j \in lo..(hi - 1) : s[i] = s[j]

C10_UniformReturns ==
    [][\A t \in DOMAIN threads :
         ( /\ At(t, QuickFns, "entry")
           /\ Size(Top(t)) >= 2
           /\ Uniform(a, Top(t).start, Top(t).end)
           /\ threads'[t] # threads[t] )
         => ( /\ a' = a
              /\ swaps' = swaps
              /\ DOMAIN threads' = DOMAIN threads
              /\ threads'[t].stack = Tail(threads[t].stack)
              /\ threads'[t].state \in {"running", "done"} )]_vars

C10_Witness ==
    /\ Returned
    /\ threads[1].fn \in QuickFns
    /\ Len(input) >= 3
    /\ Uniform(input, 1, Len(input) + 1)
    /\ MAX_PART = 1
    /\ swaps = 0
    /\ a = input
    /\ DOMAIN threads = {1}

----------------------------------------------------------------------------
\* C11: whenever quick_sort or async_quick_sort is about to run on a range of
\* two or more elements, every position its partition step dereferences
\* (pivot read, scans, swaps, final test) lies in [start, end), head is not
\* dereferenced at end and tail stays at or above start.
C11_AccessInRange ==
    \A t \in DOMAIN threads :
        (At(t, QuickFns, "entry") /\ Size(Top(t)) >= 2) =>
            LET f   == Top(t)
                acc == AccOf(f.fn, a, f.start, f.end)
            IN  /\ acc \subseteq Positions(f)
                /\ f.end \notin acc
                /\ PartitionOf(f.fn, a, f.start, f.end).tail >= f.start

\* a partition in a spawned task that swaps and touches both ends of its range
C11_Witness ==
    \E t \in DOMAIN threads :
        /\ t > 1
        /\ At(t, {"async_quick_sort"}, "entry")
        /\ Size(Top(t)) >= 3
        /\ LET f == Top(t)
               r == PartitionOf(f.fn, a, f.start, f.end)
           IN  /\ r.swaps >= 1
               /\ {f.start, f.end - 1} \subseteq AccOf(f.fn, a, f.start, f.end)

----------------------------------------------------------------------------
\* C12: a call of any of the four variants on an empty or single-element
\* range returns in its next step: the buffer is unchanged, nothing is
\* swapped, split, merged or launched, and the call does not fail.
C12_SmallRangeUntouched ==
    [][\A t \in DOMAIN threads :
         ( /\ Running(t)
           /\ Top(t).pc = "entry"
           /\ Size(Top(t)) <= 1
           /\ threads'[t] # threads[t] )
         => ( /\ a' = a
              /\ swaps' = swaps
              /\ DOMAIN threads' = DOMAIN threads
              /\ threads'[t].stack = Tail(threads[t].stack)
              /\ threads'[t].state \in {"running", "done"} )]_vars

C12_Witness ==
    /\ Returned
    /\ Len(input) = 1
    /\ threads[1].fn = "async_merge_sort"
    /\ a = input
    /\ swaps = 0
    /\ DOMAIN threads = {1}

----------------------------------------------------------------------------
\* The step of thread t leaves its current call: the frame is popped
Popped(t) == threads'[t].stack = Tail(threads[t].stack)

\* The step of thread t keeps its current call and leaves it split
SplitTaken(t) ==
    /\ Len(threads'[t].stack) = Len(threads[t].stack)
    /\ threads'[t].stack[1].pc = "part"

\* The step of thread t has sorted the whole range of its current call
WholeRangeSorted(t) ==
    LET f == Top(t)
    IN  /\ SortedOn(a', f.start, f.end)
        /\ IsPermOf(SubSeq(a', f.start, f.end - 1), SubSeq(a, f.start, f.end - 1))
        /\ \A i \in DOMAIN a : i \notin Positions(f) => a'[i] = a[i]

\* thread t takes the first step of a call of a function of fns
Enters(t, fns) ==
    /\ Running(t)
    /\ Top(t).fn \in fns
    /\ Top(t).pc = "entry"
    /\ threads'[t] # threads[t]

\* C13 as stated: in merge_sort and in quick_sort a call on a range of size
\* <= MAX_PART sorts the whole range by the baseline sort and returns without
\* splitting, and only a call on a larger range is split.
C13_BothUseThreshold ==
    [][\A t \in DOMAIN threads :
         Enters(t, {"merge_sort", "quick_sort"}) =>
            /\ Size(Top(t)) <= MAX_PART => Popped(t) /\ WholeRangeSorted(t)
            /\ SplitTaken(t) => Size(Top(t)) > MAX_PART]_vars

\* C13 amended: merge_sort sorts a range of size <= MAX_PART by the baseline
\* sort and returns, and only splits larger ranges.  quick_sort never looks at
\* MAX_PART: it returns at once on size < 2 and on a uniform range, and it
\* partitions every other range, whatever its size.
C13_MergeUsesThreshold ==
    [][\A t \in DOMAIN threads :
         /\ Enters(t, {"merge_sort"}) =>
              IF Size(Top(t)) <= MAX_PART
              THEN Popped(t) /\ WholeRangeSorted(t)
              ELSE SplitTaken(t) /\ a' = a
         /\ Enters(t, {"quick_sort"}) =>
              IF Size(Top(t)) < 2 \/ Uniform(a, Top(t).start, Top(t).end)
              THEN Popped(t) /\ a' = a
              ELSE SplitTaken(t)]_vars

C13_Witness ==
    \E t \in DOMAIN threads :
        /\ threads[1].fn = "quick_sort"
        /\ At(t, {"quick_sort"}, "part")
        /\ Size(Top(t)) = 2
        /\ MAX_PART = 2

----------------------------------------------------------------------------
\* the tasks launched so far by the entry call of thread t
Tasks(t) == {task1(t), task2(t)} \cap DOMAIN threads

\* C14: a call that has launched a task is a call of a parallel variant on a
\* range of size > MAX_PART, and once it is past its second launch it has
\* launched exactly two; a call on a range of size <= MAX_PART has launched none
\* and all of its sub-calls are frames on its own thread.
C14_SpawnsAboveThreshold ==
    \A t \in DOMAIN threads :
        /\ Tasks(t) # {} =>
             /\ threads[t].fn \in AsyncFns
             /\ Size(threads[t]) > MAX_PART
             /\ (Running(t) /\ Top(t).pc = "launched1") \/ Cardinality(Tasks(t)) = 2
        /\ Size(threads[t]) <= MAX_PART => Tasks(t) = {}
        /\ \A i \in 1..(Len(threads[t].stack) - 1) :
             threads[t].stack[i].fn \notin AsyncFns

\* a spawned task on a small range doing its sub-calls on its own thread
\* while its parent, on a large range, waits for both of its tasks
C14_Witness ==
    \E t \in DOMAIN threads :
        /\ t > 1
        /\ Size(threads[t]) = MAX_PART
        /\ Len(threads[t].stack) >= 2
        /\ Tasks(t) = {}
        /\ Cardinality(Tasks(t \div 2)) = 2

----------------------------------------------------------------------------
\* The pieces the buffer is divided into, in order of position: the range of
\* every innermost call in progress, the range of every sub-call or task
\* that has ended while its sibling has not, and the range a call has split off
\* and not yet handed to its second sub-call.
RECURSIVE ThreadTiles(_), FrameTiles(_, _)
ThreadTiles(t) ==
    IF Running(t) THEN FrameTiles(t, Len(threads[t].stack))
    ELSE <<[start |-> threads[t].start, end |-> threads[t].end]>>

FrameTiles(t, i) ==
    LET f    == threads[t].stack[i]
        lo   == [start |-> f.start, end |-> f.split]
        hi   == [start |-> f.split, end |-> f.end]
    IN  IF i > 1
        THEN IF f.pc = "left" THEN FrameTiles(t, i - 1) \o <<hi>>
             ELSE <<lo>> \o FrameTiles(t, i - 1)
        ELSE IF f.pc = "launched1" THEN ThreadTiles(task1(t)) \o <<hi>>
        ELSE IF f.pc \in {"wait1", "wait2"}
             THEN ThreadTiles(task1(t)) \o ThreadTiles(task2(t))
        ELSE <<[start |-> f.start, end |-> f.end]>>

\* the pieces follow each other from position lo to position hi without gap
\* or overlap
Tiling(tiles, lo, hi) ==
    /\ tiles # <<>>
    /\ tiles[1].start = lo
    /\ tiles[Len(tiles)].end = hi
    /\ \A i \in 1..Len(tiles) : tiles[i].start <= tiles[i].end
    /\ \A i \in 1..(Len(tiles) - 1) : tiles[i].end = tiles[i + 1].start

\* the two sub-ranges a call in progress has handed out are [start, split)
\* and [split, end)
SplitsAtOnePoint ==
    \A t \in DOMAIN threads : \A i \in 1..Len(threads[t].stack) :
        LET f == threads[t].stack[i]
        IN  /\ f.pc # "entry" => (f.start <= f.split /\ f.split <= f.end)
            /\ (i > 1 /\ f.pc = "left") =>
                 /\ threads[t].stack[i - 1].start = f.start
                 /\ threads[t].stack[i - 1].end = f.split
            /\ (i > 1 /\ f.pc = "right") =>
                 /\ threads[t].stack[i - 1].start = f.split
                 /\ threads[t].stack[i - 1].end = f.end
            /\ (i = 1 /\ f.pc \in {"launched1", "wait1", "wait2"}) =>
                 /\ threads[task1(t)].start = f.start
                 /\ threads[task1(t)].end = f.split
            /\ (i = 1 /\ f.pc \in {"wait1", "wait2"}) =>
                 /\ threads[task2(t)].start = f.split
                 /\ threads[task2(t)].end = f.end

\* C15: every split hands out [start, s) and [s, end) for one position s with
\* start <= s <= end, and at every moment the pieces tile the whole buffer
\* exactly once.
C15_RangesTile ==
    /\ SplitsAtOnePoint
    /\ threads # <<>> => Tiling(ThreadTiles(1), 1, Len(a) + 1)

C15_Witness ==
    /\ Cardinality(DOMAIN threads) >= 5
    /\ Len(ThreadTiles(1)) >= 4
    /\ \E t \in DOMAIN threads : t > 1 /\ ~Running(t)
    /\ \E t \in DOMAIN threads : t > 3 /\ Running(t)

----------------------------------------------------------------------------
\* the midpoint both merge sorters split at
SameMidpoint ==
    \A t \in DOMAIN threads :
        At(t, MergeFns, "part") =>
            Top(t).split = Top(t).start + (Size(Top(t)) \div 2)

\* two partition results with the same pivot, split point and arrangement
SamePartition(q, p) ==
    /\ q.uniform = p.uniform
    /\ q.pivot = p.pivot
    /\ q.head = p.head
    /\ q.a = p.a

\* the contract of a partition result r on [start, end) of the buffer s
PartitionContract(r, s, start, end) ==
    /\ IsPermOf(SubSeq(r.a, start, end - 1), SubSeq(s, start, end - 1))
    /\ \A i \in DOMAIN s : (i < start \/ i >= end) => r.a[i] = s[i]
    /\ r.uniform = Uniform(s, start, end)
    /\ ~r.uniform =>
         /\ start < r.head /\ r.head < end
         /\ \A i \in start..(r.head - 1) : r.a[i] <= r.pivot
         /\ \A i \in r.head..(end - 1) : r.a[i] > r.pivot

\* C16 as stated: both merge sorters split at the same midpoint, and on every
\* range a quick sorter is called on, the partition steps of quick_sort and of
\* async_quick_sort yield the same pivot, split point and arrangement.
C16_SameDecomposition ==
    /\ SameMidpoint
    /\ \A t \in DOMAIN threads :
         (At(t, QuickFns, "entry") /\ Size(Top(t)) >= 2) =>
             SamePartition(QuickPartition(a, Top(t).start, Top(t).end),
                           AsyncQuickPartition(a, Top(t).start, Top(t).end))

\* C16 amended: both merge sorters split at the same midpoint; the partition
\* steps of quick_sort (pivot taken from the middle element) and of
\* async_quick_sort (pivot taken from the first element) fulfil the same
\* contract: the range is rearranged only within itself, a uniform range is
\* detected, and otherwise start < split < end with the values before split
\* <= pivot and the values from split on > pivot.  Pivot, split point and
\* arrangement can differ.
C16_SameContract ==
    /\ SameMidpoint
    /\ \A t \in DOMAIN threads :
         (At(t, QuickFns, "entry") /\ Size(Top(t)) >= 2) =>
             LET f == Top(t)
                 q == QuickPartition(a, f.start, f.end)
                 p == AsyncQuickPartition(a, f.start, f.end)
             IN  /\ PartitionContract(q, a, f.start, f.end)
                 /\ PartitionContract(p, a, f.start, f.end)

\* a range on which the two partition steps choose different pivots
C16_Witness ==
    \E t \in DOMAIN threads :
        /\ At(t, QuickFns, "entry")
        /\ Size(Top(t)) >= 4
        /\ QuickPartition(a, Top(t).start, Top(t).end).pivot
             # AsyncQuickPartition(a, Top(t).start, Top(t).end).pivot

----------------------------------------------------------------------------
\* ceil(log2(n / t)) for t >= 1, and 0 when n <= t
CeilLog2Ratio(n, t) ==
    CHOOSE k \in 0..n : /\ t * 2^k >= n
                        /\ k = 0 \/ t * 2^(k - 1) < n

\* the number of nested calls below the top-level call
Depth == Len(threads[1].stack) - 1

\* C17 as stated: in a run of merge_sort or quick_sort on n elements the
\* nesting of calls below the top-level call never exceeds ceil(log2(n / t)).
C17_LogDepth ==
    (threads # <<>> /\ threads[1].fn \in {"merge_sort", "quick_sort"})
        => Depth <= CeilLog2Ratio(Len(input), MAX_PART)

\* C17 amended: the bound holds for merge_sort; quick_sort ignores the
\* threshold and may split off a single element, its nesting never exceeds
\* n - 1 (0 when n = 0).
C17_DepthBounds ==
    /\ (threads # <<>> /\ threads[1].fn = "merge_sort")
         => Depth <= CeilLog2Ratio(Len(input), MAX_PART)
    /\ (threads # <<>> /\ threads[1].fn = "quick_sort")
         => Depth <= IF Len(input) = 0 THEN 0 ELSE Len(input) - 1

\* quick_sort nested n - 1 deep, beyond the logarithmic bound
C17_Witness ==
    /\ threads # <<>>
    /\ threads[1].fn = "quick_sort"
    /\ Len(input) >= 3
    /\ Depth = Len(input) - 1
    /\ Depth > CeilLog2Ratio(Len(input), MAX_PART)

----------------------------------------------------------------------------
\* C18: whenever merge_sort or async_merge_sort is at its inplace_merge, in
\* every interleaving and also after a launch has failed in a sub-task,
\* start <= middle <= end and both [start, middle) and [middle, end) are
\* sorted ascending.
C18_MergePrecondition ==
    \A t \in DOMAIN threads :
        At(t, MergeFns, "right") =>
            LET f == Top(t)
            IN  /\ f.start <= f.split /\ f.split <= f.end
                /\ SortedOn(a, f.start, f.split)
                /\ SortedOn(a, f.split, f.end)

----------------------------------------------------------------------------
\* the positions a step writes a different value to
Written == {i \in DOMAIN a : a'[i] # a[i]}

\* the values held in [lo, hi) are the same before and after the step
SameValues(lo, hi) == IsPermOf(SubSeq(a', lo, hi - 1), SubSeq(a, lo, hi - 1))

\* the threads whose tasks, directly or not, include thread u
RECURSIVE Ancestors(_)
Ancestors(u) == IF u <= 1 THEN {} ELSE {u \div 2} \cup Ancestors(u \div 2)

\* C19: a step of a thread writes only inside the range of each call on its
\* stack and inside the range of each task it descends from, and every step
\* leaves the multiset of values in the range of every call and task in
\* progress as it was; so a call returns with the values it began with and with the positions
\* outside its range unchanged by it.
C19_Frame ==
    [][threads # <<>> =>
         /\ DOMAIN a' = DOMAIN a
         /\ \A u \in DOMAIN threads :
              /\ \A i \in 1..Len(threads[u].stack) :
                   SameValues(threads[u].stack[i].start, threads[u].stack[i].end)
              /\ threads[u].state = "running" =>
                   SameValues(threads[u].start, threads[u].end)
              /\ threads'[u] # threads[u] =>
                   /\ \A i \in 1..Len(threads[u].stack) :
                        Written \subseteq Positions(threads[u].stack[i])
                   /\ \A p \in Ancestors(u) : Written \subseteq Positions(threads[p])]_vars

\* a spawned task has returned after its steps rewrote part of the buffer
C19_Witness ==
    \E u \in DOMAIN threads :
        /\ u > 3
        /\ threads[u].state = "done"
        /\ Size(threads[u]) >= 2
        /\ SubSeq(a, threads[u].start, threads[u].end - 1)
             # SubSeq(input, threads[u].start, threads[u].end - 1)
        /\ \E i \in DOMAIN a : i \notin Positions(threads[u]) /\ a[i] = input[i]

====
